---- MODULE Spec2Model ----
(***************************************************************************)
(* A model of internal/exec/exec.go of graphql-go: the execution of one    *)
(* operation.  Request.Execute walks a selection tree, calls the resolver  *)
(* methods, writes the JSON bytes and collects the QueryErrors.            *)
(*                                                                         *)
(* Goroutines are the elements of DOMAIN g.  The main goroutine is <<>>;   *)
(* the k-th goroutine started by goroutine t at a fan-out is t \o <<k>>.   *)
(* Each goroutine has a call stack of frames and the bytes.Buffer it       *)
(* writes to.  A step runs one goroutine from one point of its code to the *)
(* next.                                                                   *)
(***************************************************************************)
EXTENDS Integers, Sequences, FiniteSets, TLC

\* Bounds of the model.
MaxLimiterCap == 2
MaxListLen == 2

----------------------------------------------------------------------------
\* Types (common.Type).  nn is the NonNull wrapper; of is List.OfType.

T(kind) == [kind |-> kind, nn |-> FALSE]
ListOf(t) == [kind |-> "List", nn |-> FALSE, of |-> t]
NonNull(t) == [t EXCEPT !.nn = TRUE]

unwrapNonNull(t) == <<[t EXCEPT !.nn = FALSE], t.nn>>

----------------------------------------------------------------------------
\* Runtime values (reflect.Value): k is the Go kind.

Int32(n) == [k |-> "Int32", v |-> n]
String(s) == [k |-> "String", v |-> s]
NaN == [k |-> "Float64", v |-> "NaN"]
PtrTo(v) == [k |-> "Ptr", isnil |-> FALSE, elem |-> v]
NilPtr == [k |-> "Ptr", isnil |-> TRUE]
Slice(vs) == [k |-> "Slice", isnil |-> FALSE, elems |-> vs]
NilSlice == [k |-> "Slice", isnil |-> TRUE, elems |-> <<>>]
\* A resolver object: m maps a field's method to what a call of it does,
\* is maps a type name to what the narrowing method To<Type> returns.
Resolver(kind, m, is) == [k |-> kind, isnil |-> FALSE, m |-> m, is |-> is]
NilInterface == [k |-> "Interface", isnil |-> TRUE]

\* What a call of a resolver method does.
Returns(v) == [panic |-> "", res |-> v, err |-> ""]
Fails(v, e) == [panic |-> "", res |-> v, err |-> e]
Panics(p) == [panic |-> p, res |-> NilPtr, err |-> ""]
Narrow(ok, v) == [ok |-> ok, res |-> v]

NoMethods == [x \in {} |-> Returns(NilPtr)]
NoNarrowing == [x \in {} |-> Narrow(FALSE, NilPtr)]

\* reflect.Value.IsNil panics on a kind that cannot be nil.
CanBeNil(v) == v.k \in {"Ptr", "Interface", "Slice"}
\* reflect.Value.Method panics on a nil interface value.
MethodPanics(v) == v.k = "Interface" /\ v.isnil

\* encoding/json.Marshal of the scalar values of the model.
jsonMarshal(v) ==
  CASE v.k = "Int32" -> [err |-> FALSE, data |-> ToString(v.v)]
    [] v.k = "String" -> [err |-> FALSE, data |-> "\"" \o v.v \o "\""]
    [] v.k = "Float64" -> [err |-> TRUE, data |-> ""]
    [] OTHER -> [err |-> FALSE, data |-> "null"]

\* reflect.Value.String.
reflectString(v) == IF v.k = "String" THEN v.v ELSE "<" \o v.k \o " Value>"

----------------------------------------------------------------------------
\* Selections (selected.Selection).

NoFixedResult == [valid |-> FALSE]

SchemaField(alias, name, typ, sels, async, hasError) ==
  [kind |-> "SchemaField", Alias |-> alias, Name |-> name, Type |-> typ,
   Sels |-> sels, Async |-> async, HasError |-> hasError,
   FixedResult |-> NoFixedResult]

TypenameField(alias, name, assertions) ==
  [kind |-> "TypenameField", Alias |-> alias, Name |-> name,
   TypeAssertions |-> assertions]

TypeAssertion(typeName, sels) ==
  [kind |-> "TypeAssertion", Method |-> typeName, Sels |-> sels]

\* resolvable.MetaFieldTypename with the alias and the fixed result.
MetaFieldTypename(alias, result) ==
  [kind |-> "SchemaField", Alias |-> alias, Name |-> "__typename",
   Type |-> NonNull(T("Scalar")), Sels |-> <<>>, Async |-> FALSE,
   HasError |-> FALSE, FixedResult |-> [valid |-> TRUE, v |-> String(result)]]

\* selected.HasAsyncSel: some field of the selection set is asynchronous.
RECURSIVE HasAsyncSel(_)
HasAsyncSel(sels) ==
  \E i \in 1..Len(sels) :
    CASE sels[i].kind = "SchemaField" -> sels[i].Async
      [] sels[i].kind = "TypeAssertion" -> HasAsyncSel(sels[i].Sels)
      [] OTHER -> FALSE

----------------------------------------------------------------------------
\* Paths (pathSegment): a reverse-linked chain.

NilPath == [isnil |-> TRUE]
pathSegment(parent, value) == [isnil |-> FALSE, parent |-> parent, value |-> value]
\* The two kinds of path element: a field alias, a list index.
Key(alias) == [s |-> alias, i |-> -1]
Idx(i) == [s |-> "", i |-> i]

\* toSlice with the segments in the order of the chain, leaf first.
RECURSIVE toSliceLeafFirst(_)
toSliceLeafFirst(p) ==
  IF p.isnil THEN <<>> ELSE <<p.value>> \o toSliceLeafFirst(p.parent)

RECURSIVE toSlice(_)
toSlice(p) == IF p.isnil THEN <<>> ELSE Append(toSlice(p.parent), p.value)

----------------------------------------------------------------------------
\* Errors (errors.QueryError).

CtxCanceled == "context canceled"

QueryError(msg, path, orig, pv) ==
  [Message |-> msg, Path |-> path, OriginalError |-> orig, PanicValue |-> pv]

Errorf(msg) == QueryError(msg, <<>>, "", "")

panicError(value) == [Errorf("internal server error") EXCEPT !.PanicValue = value]

----------------------------------------------------------------------------
\* The merge step.

\* The iteration orders of the map TypenameField.TypeAssertions that the
\* model distinguishes (Go ranges over a map in an unspecified order).
MapOrders == {<<"Human", "Droid">>, <<"Droid", "Human">>}

NilInterfaceMethod == "reflect: Method on nil interface value"

\* typeOf, with ord the order in which the range loop visits the names.
typeOf(tf, resolver, ord) ==
  IF tf.TypeAssertions = {} THEN [panic |-> "", name |-> tf.Name]
  ELSE IF MethodPanics(resolver) THEN [panic |-> NilInterfaceMethod, name |-> ""]
  ELSE LET hits == {i \in 1..Len(ord) :
                      ord[i] \in tf.TypeAssertions /\ resolver.is[ord[i]].ok}
       IN IF hits = {} THEN [panic |-> "", name |-> ""]
          ELSE [panic |-> "",
                name |-> ord[CHOOSE i \in hits : \A j \in hits : i <= j]]

fieldToExec(field, resolver) == [field |-> field, sels |-> <<>>, resolver |-> resolver]

NoFields == [fields |-> <<>>, fieldByAlias |-> [x \in {} |-> 0], panic |-> ""]

\* collectFieldsToResolve that drops the subtree of every type assertion,
\* whatever the method of the resolver returns.
RECURSIVE collectFieldsToResolveDropsAssertions(_, _, _, _)
collectFieldsToResolveDropsAssertions(sels, resolver, acc, ord) ==
  IF Len(sels) = 0 \/ acc.panic # "" THEN acc
  ELSE
    LET sel == Head(sels)
        rest == Tail(sels)
    IN CASE sel.kind = "SchemaField" ->
              LET ok == sel.Alias \in DOMAIN acc.fieldByAlias
                  at == IF ok THEN acc.fieldByAlias[sel.Alias] ELSE Len(acc.fields) + 1
                  fs == IF ok THEN acc.fields
                        ELSE Append(acc.fields, fieldToExec(sel, resolver))
                  byAlias == IF ok THEN acc.fieldByAlias
                             ELSE [a \in DOMAIN acc.fieldByAlias \cup {sel.Alias} |->
                                     IF a = sel.Alias THEN at ELSE acc.fieldByAlias[a]]
              IN collectFieldsToResolveDropsAssertions(rest, resolver,
                   [fields |-> [fs EXCEPT ![at].sels = @ \o sel.Sels],
                    fieldByAlias |-> byAlias, panic |-> ""], ord)
         [] sel.kind = "TypenameField" ->
              LET ty == typeOf(sel, resolver, ord)
              IN IF ty.panic # "" THEN [acc EXCEPT !.panic = ty.panic]
                 ELSE collectFieldsToResolveDropsAssertions(rest, resolver,
                        [acc EXCEPT !.fields = Append(@,
                           fieldToExec(MetaFieldTypename(sel.Alias, ty.name), resolver))],
                        ord)
         [] sel.kind = "TypeAssertion" ->
              IF MethodPanics(resolver) THEN [acc EXCEPT !.panic = NilInterfaceMethod]
              ELSE LET out == resolver.is[sel.Method]
                   IN IF TRUE
                      THEN collectFieldsToResolveDropsAssertions(rest, resolver, acc, ord)
                      ELSE collectFieldsToResolveDropsAssertions(rest, resolver,
                             collectFieldsToResolveDropsAssertions(sel.Sels, out.res, acc, ord), ord)
         [] OTHER -> [acc EXCEPT !.panic = "unreachable"]

\* collectFieldsToResolve: acc holds *fields, fieldByAlias and the value of a
\* panic raised on the way.
RECURSIVE collectFieldsToResolve(_, _, _, _)
collectFieldsToResolve(sels, resolver, acc, ord) ==
  IF Len(sels) = 0 \/ acc.panic # "" THEN acc
  ELSE
    LET sel == Head(sels)
        rest == Tail(sels)
    IN CASE sel.kind = "SchemaField" ->
              LET ok == sel.Alias \in DOMAIN acc.fieldByAlias
                  at == IF ok THEN acc.fieldByAlias[sel.Alias] ELSE Len(acc.fields) + 1
                  fs == IF ok THEN acc.fields
                        ELSE Append(acc.fields, fieldToExec(sel, resolver))
                  byAlias == IF ok THEN acc.fieldByAlias
                             ELSE [a \in DOMAIN acc.fieldByAlias \cup {sel.Alias} |->
                                     IF a = sel.Alias THEN at ELSE acc.fieldByAlias[a]]
              IN collectFieldsToResolve(rest, resolver,
                   [fields |-> [fs EXCEPT ![at].sels = @ \o sel.Sels],
                    fieldByAlias |-> byAlias, panic |-> ""], ord)
         [] sel.kind = "TypenameField" ->
              LET ty == typeOf(sel, resolver, ord)
              IN IF ty.panic # "" THEN [acc EXCEPT !.panic = ty.panic]
                 ELSE collectFieldsToResolve(rest, resolver,
                        [acc EXCEPT !.fields = Append(@,
                           fieldToExec(MetaFieldTypename(sel.Alias, ty.name), resolver))],
                        ord)
         [] sel.kind = "TypeAssertion" ->
              IF MethodPanics(resolver) THEN [acc EXCEPT !.panic = NilInterfaceMethod]
              ELSE LET out == resolver.is[sel.Method]
                   IN IF ~out.ok
                      THEN collectFieldsToResolve(rest, resolver, acc, ord)
                      ELSE collectFieldsToResolve(rest, resolver,
                             collectFieldsToResolve(sel.Sels, out.res, acc, ord), ord)
         [] OTHER -> [acc EXCEPT !.panic = "unreachable"]

----------------------------------------------------------------------------
\* The type-directed part of execSelectionSet: what the call does with a
\* value of a type, before any recursion.
\*   panic: it panics with value;    write: it writes data and returns;
\*   object: it calls execSelections with resolver;
\*   list: it serializes the elements of resolver, of type of.

GotNil == "got nil for non-null"
CouldNotMarshal == "could not marshal"

\* execSelectionSetCase without the non-null test of an absent object: null
\* is written whatever the type says.
execSelectionSetCaseNullForNonNull(typ, resolver) ==
  LET t == unwrapNonNull(typ)[1]
      nonNull == unwrapNonNull(typ)[2]
  IN IF t.kind \in {"Object", "Interface", "Union"}
     THEN IF resolver.k = "Ptr" /\ resolver.isnil
          THEN [do |-> "write", data |-> <<"null">>]
          ELSE [do |-> "object", resolver |-> resolver]
     ELSE IF ~nonNull /\ resolver.isnil
     THEN [do |-> "write", data |-> <<"null">>]
     ELSE LET r == IF nonNull THEN resolver ELSE resolver.elem
          IN CASE t.kind = "List" -> [do |-> "list", resolver |-> r, of |-> t.of]
               [] t.kind = "Scalar" ->
                    IF jsonMarshal(r).err
                    THEN [do |-> "panic", value |-> CouldNotMarshal]
                    ELSE [do |-> "write", data |-> <<jsonMarshal(r).data>>]
               [] OTHER -> [do |-> "write", data |-> <<"\"", reflectString(r), "\"">>]

execSelectionSetCase(typ, resolver) ==
  LET t == unwrapNonNull(typ)[1]
      nonNull == unwrapNonNull(typ)[2]
  IN IF t.kind \in {"Object", "Interface", "Union"}
     THEN IF resolver.k = "Ptr" /\ resolver.isnil
          THEN IF nonNull THEN [do |-> "panic", value |-> GotNil]
               ELSE [do |-> "write", data |-> <<"null">>]
          ELSE [do |-> "object", resolver |-> resolver]
     ELSE IF ~nonNull /\ ~CanBeNil(resolver)
     THEN [do |-> "panic", value |-> "reflect: call of reflect.Value.IsNil"]
     ELSE IF ~nonNull /\ resolver.isnil
     THEN [do |-> "write", data |-> <<"null">>]
     ELSE LET r == IF nonNull THEN resolver ELSE resolver.elem
          IN CASE t.kind = "List" ->
                    IF r.k # "Slice"
                    THEN [do |-> "panic", value |-> "reflect: call of reflect.Value.Len"]
                    ELSE [do |-> "list", resolver |-> r, of |-> t.of]
               [] t.kind = "Scalar" ->
                    IF jsonMarshal(r).err
                    THEN [do |-> "panic", value |-> CouldNotMarshal]
                    ELSE [do |-> "write", data |-> <<jsonMarshal(r).data>>]
               [] t.kind = "Enum" ->
                    [do |-> "write", data |-> <<"\"", reflectString(r), "\"">>]
               [] OTHER -> [do |-> "panic", value |-> "unreachable"]

----------------------------------------------------------------------------
\* The state.

VARIABLES
  op,              \* the operation: Type, Name and the selections ApplyOperation gives
  schemaResolver,  \* s.Resolver, the root resolver
  limiterCap,      \* cap(r.Limiter)
  ctxErr,          \* ctx.Err(): "" until the context is cancelled
  Limiter,         \* len(r.Limiter): the permits held
  Errs,            \* r.Errs
  g,               \* the goroutines: [stack, out]
  ret,             \* what Execute returned
  Tracer,          \* per location, the spans begun and the finish calls, and
                   \* the sends to and receives from the Limiter, and what
                   \* the invocation step found
  Logger,          \* the number of LogPanic calls
  Calls,           \* per location, the call of the field's resolver method
  Slots,           \* per location, the bytes its field or element wrote
  Objects          \* per location, the keys and bytes of the object written

\* Tracer, Logger and Calls are the collaborators' view of the execution.
\* Slots and Objects record, when a field, a list element or an object is
\* complete, the part of the buffer it wrote; no action reads them.

vars == <<op, schemaResolver, limiterCap, ctxErr, Limiter, Errs, g, ret,
          Tracer, Logger, Calls, Slots, Objects>>

Main == <<>>

NoErr == [isnil |-> TRUE]
Err(e) == [isnil |-> FALSE, e |-> e]

\* Frames.  mark is len(out) when the frame began to write; smark is len(out)
\* when the field or element it is executing began to write.
ExecuteFrame(pc) == [fn |-> "Execute", pc |-> pc]
SelectionsFrame(sels, path, resolver, serially, mark) ==
  [fn |-> "execSelections", pc |-> "begin", sels |-> sels, path |-> path,
   resolver |-> resolver, serially |-> serially,
   fields |-> <<>>, async |-> FALSE, i |-> 1, mark |-> mark, smark |-> mark]
FieldFrame(f, path, applyLimiter) ==
  [fn |-> "execFieldSelection", pc |-> IF applyLimiter THEN "acquire" ELSE "invoke",
   f |-> f, path |-> path, applyLimiter |-> applyLimiter,
   result |-> NilPtr, err |-> NoErr]
SelectionSetFrame(sels, typ, path, resolver) ==
  [fn |-> "execSelectionSet", pc |-> "begin", sels |-> sels, typ |-> typ,
   path |-> path, resolver |-> resolver, l |-> 0, i |-> 0, smark |-> 0]

Stack(t) == g[t].stack
Top(t) == Stack(t)[Len(Stack(t))]
At(t, fn, pc) ==
  /\ t \in DOMAIN g
  /\ Len(Stack(t)) > 0
  /\ Top(t).fn = fn
  /\ Top(t).pc = pc
Popped(t) == SubSeq(Stack(t), 1, Len(Stack(t)) - 1)
Replaced(t, fr) == Append(Popped(t), fr)

\* The goroutines a fan-out of t started, and whether they have all ended
\* (wg.Wait returns).
Children(t, n) == {t \o <<k>> : k \in 1..n}
AllDone(t, n) == \A c \in Children(t, n) : Len(g[c].stack) = 0

\* g with goroutine t at stack st and buffer out.
With(t, st, out) == [g EXCEPT ![t] = [stack |-> st, out |-> out]]

\* Where in the result frame j of goroutine t is: the aliases of the
\* fields and the indices of the list elements being executed below it on
\* the stack, after those of the goroutine that started t.
RECURSIVE Loc(_, _)
Loc(t, j) ==
  IF j <= 1
  THEN IF t = Main THEN <<>>
       ELSE LET parent == SubSeq(t, 1, Len(t) - 1)
                k == t[Len(t)]
                pf == Top(parent)
            IN Append(Loc(parent, Len(Stack(parent))),
                      IF pf.fn = "execSelections"
                      THEN Key(pf.fields[k].field.Alias) ELSE Idx(k - 1))
  ELSE LET below == Stack(t)[j - 1]
       IN IF below.fn = "execSelections"
          THEN Append(Loc(t, j - 1), Key(below.fields[below.i - 1].field.Alias))
          ELSE IF below.fn = "execSelectionSet"
          THEN Append(Loc(t, j - 1), Idx(below.i - 1))
          ELSE Loc(t, j - 1)

Here(t) == Loc(t, Len(Stack(t)))

Put(f, key, val) == [k \in DOMAIN f \cup {key} |-> IF k = key THEN val ELSE f[k]]
After(out, mark) == SubSeq(out, mark + 1, Len(out))

\* slots with the buffers of the goroutines t started put at keys.
RECURSIVE putBuffers(_, _, _, _)
putBuffers(slots, t, keys, k) ==
  IF k > Len(keys) THEN slots
  ELSE putBuffers(Put(slots, keys[k], g[t \o <<k>>].out), t, keys, k + 1)

NoSpan ==
  [begun |-> 0, finished |-> 0, acquired |-> 0, released |-> 0,
   fixed |-> FALSE, ctx |-> ""]
Span(tr, key) == IF key \in DOMAIN tr THEN tr[key] ELSE NoSpan
\* fixed and ctx: whether the field has a fixed result and what ctx.Err()
\* is when the span begins.
TraceField(tr, key, fixed, ctx) ==
  Put(tr, key, [Span(tr, key) EXCEPT !.begun = @ + 1, !.fixed = fixed, !.ctx = ctx])
\* finish that is never invoked.
finishNeverInvoked(tr, key) == tr
finish(tr, key) == Put(tr, key, [Span(tr, key) EXCEPT !.finished = @ + 1])
acquire(tr, key) == Put(tr, key, [Span(tr, key) EXCEPT !.acquired = @ + 1])
release(tr, key) == Put(tr, key, [Span(tr, key) EXCEPT !.released = @ + 1])

\* The deferred finish calls of the execFieldSelection frames that a panic
\* in goroutine t unwinds, from frame j down.
RECURSIVE finishAll(_, _, _)
finishAll(tr, t, j) ==
  IF j = 0 THEN tr
  ELSE finishAll(IF Stack(t)[j].fn = "execFieldSelection"
                 THEN finish(tr, Loc(t, j)) ELSE tr, t, j - 1)

\* handlePanic that recovers and logs the panic and adds no error.
handlePanicAddsNoError(t, value) ==
  /\ g' = With(t, IF t = Main THEN <<ExecuteFrame("walked")>> ELSE <<>>, g[t].out)
  /\ Tracer' = finishAll(Tracer, t, Len(Stack(t)))
  /\ Logger' = Logger + 1
  /\ Errs' = Errs

\* A panic in goroutine t that no frame of it recovers: the deferred calls
\* run and handlePanic, deferred at the bottom of every goroutine, logs the
\* panic and adds the error.
handlePanic(t, value) ==
  /\ g' = With(t, IF t = Main THEN <<ExecuteFrame("walked")>> ELSE <<>>, g[t].out)
  /\ Tracer' = finishAll(Tracer, t, Len(Stack(t)))
  /\ Logger' = Logger + 1
  /\ Errs' = Append(Errs, panicError(value))

----------------------------------------------------------------------------
\* Request.Execute.

input == <<op, schemaResolver, limiterCap>>

\* Execute_Walk with the root selections of a mutation walked as those of a
\* query are.
Execute_WalkNeverSerially ==
  /\ At(Main, "Execute", "start")
  /\ g' = With(Main, <<ExecuteFrame("walked"),
                       SelectionsFrame(op.Sels, NilPath, schemaResolver, FALSE, 0)>>,
               g[Main].out)
  /\ UNCHANGED <<input, ctxErr, Limiter, Errs, ret, Tracer, Logger, Calls,
                 Slots, Objects>>

\* Execute, lines 42-46: the walk of the root selections begins.
Execute_Walk ==
  /\ At(Main, "Execute", "start")
  /\ g' = With(Main, <<ExecuteFrame("walked"),
                       SelectionsFrame(op.Sels, NilPath, schemaResolver,
                                       op.Type = "mutation", 0)>>, g[Main].out)
  /\ UNCHANGED <<input, ctxErr, Limiter, Errs, ret, Tracer, Logger, Calls,
                 Slots, Objects>>

\* Execute_Return without the discard: the bytes written so far are returned
\* with the error of the cancellation.
Execute_ReturnKeepsBytes ==
  /\ At(Main, "Execute", "walked")
  /\ g' = With(Main, <<>>, g[Main].out)
  /\ ret' = IF ctxErr # ""
            THEN [returned |-> TRUE, isnil |-> FALSE, bytes |-> g[Main].out,
                  errs |-> <<QueryError(ctxErr, <<>>, ctxErr, "")>>]
            ELSE [returned |-> TRUE, isnil |-> FALSE, bytes |-> g[Main].out,
                  errs |-> Errs]
  /\ UNCHANGED <<input, ctxErr, Limiter, Errs, Tracer, Logger, Calls, Slots,
                 Objects>>

\* Execute, lines 49-55: the walk has ended, by return or by panic.
Execute_Return ==
  /\ At(Main, "Execute", "walked")
  /\ g' = With(Main, <<>>, g[Main].out)
  /\ ret' = IF ctxErr # ""
            THEN [returned |-> TRUE, isnil |-> TRUE, bytes |-> <<>>,
                  errs |-> <<QueryError(ctxErr, <<>>, ctxErr, "")>>]
            ELSE [returned |-> TRUE, isnil |-> FALSE, bytes |-> g[Main].out,
                  errs |-> Errs]
  /\ UNCHANGED <<input, ctxErr, Limiter, Errs, Tracer, Logger, Calls, Slots,
                 Objects>>

\* The caller cancels the context.
Cancel ==
  /\ ctxErr = ""
  /\ ~ret.returned
  /\ ctxErr' = CtxCanceled
  /\ UNCHANGED <<input, Limiter, Errs, g, ret, Tracer, Logger, Calls, Slots,
                 Objects>>

----------------------------------------------------------------------------
\* Request.execSelections.

fieldPath(fr, k) == pathSegment(fr.path, Key(fr.fields[k].field.Alias))

writeKey(i, alias) ==
  (IF i > 1 THEN <<",">> ELSE <<>>) \o <<"\"", alias, "\"", ":">>

Aliases(fields) == [k \in 1..Len(fields) |-> fields[k].field.Alias]

\* Lines 66-83 and 85: the merge, then either the goroutines of the fields
\* or the opening brace of the sequential loop.
execSelections_Collect(t) ==
  /\ At(t, "execSelections", "begin")
  /\ \E ord \in MapOrders :
       LET fr == Top(t)
           async == ~fr.serially /\ HasAsyncSel(fr.sels)
           c == collectFieldsToResolve(fr.sels, fr.resolver, NoFields, ord)
           n == Len(c.fields)
           fr2 == [fr EXCEPT !.fields = c.fields, !.async = async,
                             !.pc = IF async THEN "wait" ELSE "next"]
       IN IF c.panic # ""
          THEN handlePanic(t, c.panic)
          ELSE /\ g' = IF async
                       THEN [u \in DOMAIN g \cup Children(t, n) |->
                               IF u = t THEN [stack |-> Replaced(t, fr2), out |-> g[t].out]
                               ELSE IF u \in DOMAIN g THEN g[u]
                               ELSE [stack |-> <<FieldFrame(c.fields[u[Len(u)]],
                                                            fieldPath(fr2, u[Len(u)]), TRUE)>>,
                                     out |-> <<>>]]
                       ELSE With(t, Replaced(t, fr2), Append(g[t].out, "{"))
               /\ UNCHANGED <<Errs, Tracer, Logger>>
  /\ UNCHANGED <<input, ctxErr, Limiter, ret, Calls, Slots, Objects>>

\* Lines 86-101, sequential: the next field, or the closing brace.
execSelections_Next(t) ==
  /\ At(t, "execSelections", "next")
  /\ LET fr == Top(t)
         i == fr.i
         here == Here(t)
         out == g[t].out
         keyed == out \o writeKey(i, fr.fields[i].field.Alias)
         closed == Append(out, "}")
         slots == IF i > 1
                  THEN Put(Slots, Append(here, Key(fr.fields[i - 1].field.Alias)),
                           After(out, fr.smark))
                  ELSE Slots
     IN /\ Slots' = slots
        /\ IF i <= Len(fr.fields)
           THEN /\ g' = With(t, Append(Replaced(t, [fr EXCEPT !.i = i + 1,
                                                              !.smark = Len(keyed)]),
                                       FieldFrame(fr.fields[i], fieldPath(fr, i), FALSE)),
                             keyed)
                /\ UNCHANGED Objects
           ELSE /\ g' = With(t, Popped(t), closed)
                /\ Objects' = Put(Objects, here, [keys |-> Aliases(fr.fields),
                                                  out |-> After(closed, fr.mark),
                                                  async |-> FALSE, sels |-> fr.sels,
                                                  resolver |-> fr.resolver])
  /\ UNCHANGED <<input, ctxErr, Limiter, Errs, ret, Tracer, Logger, Calls>>

RECURSIVE writeFields(_, _, _)
writeFields(t, fields, i) ==
  IF i > Len(fields) THEN <<>>
  ELSE writeKey(i, fields[i].field.Alias) \o g[t \o <<i>>].out
       \o writeFields(t, fields, i + 1)

\* Lines 82-101, concurrent: wg.Wait returns and the buffers of the fields
\* are copied in the order of fields.
execSelections_Wait(t) ==
  /\ At(t, "execSelections", "wait")
  /\ LET fr == Top(t)
         n == Len(fr.fields)
         here == Here(t)
         object == <<"{">> \o writeFields(t, fr.fields, 1) \o <<"}">>
     IN /\ AllDone(t, n)
        /\ g' = [u \in DOMAIN g \ Children(t, n) |->
                   IF u = t
                   THEN [stack |-> Popped(t), out |-> g[t].out \o object]
                   ELSE g[u]]
        /\ Slots' = putBuffers(Slots, t, [j \in 1..n |->
                                        Append(here, Key(fr.fields[j].field.Alias))], 1)
        /\ Objects' = Put(Objects, here, [keys |-> Aliases(fr.fields), out |-> object,
                                          async |-> TRUE, sels |-> fr.sels,
                                          resolver |-> fr.resolver])
  /\ UNCHANGED <<input, ctxErr, Limiter, Errs, ret, Tracer, Logger, Calls>>

----------------------------------------------------------------------------
\* execFieldSelection.

\* execFieldSelection_Acquire with a send that never blocks.
execFieldSelection_AcquireNeverBlocks(t) ==
  /\ At(t, "execFieldSelection", "acquire")
  /\ Limiter' = Limiter + 1
  /\ g' = With(t, Replaced(t, [Top(t) EXCEPT !.pc = "invoke"]), g[t].out)
  /\ Tracer' = acquire(Tracer, Here(t))
  /\ UNCHANGED <<input, ctxErr, Errs, ret, Logger, Calls, Slots, Objects>>

\* Lines 169-171: r.Limiter <- struct{}{} blocks while the channel is full.
execFieldSelection_Acquire(t) ==
  /\ At(t, "execFieldSelection", "acquire")
  /\ Limiter < limiterCap
  /\ Limiter' = Limiter + 1
  /\ g' = With(t, Replaced(t, [Top(t) EXCEPT !.pc = "invoke"]), g[t].out)
  /\ Tracer' = acquire(Tracer, Here(t))
  /\ UNCHANGED <<input, ctxErr, Errs, ret, Logger, Calls, Slots, Objects>>

afterInvocation(fr) == IF fr.applyLimiter THEN "release" ELSE "result"

\* execFieldSelection_Invoke without the test of the context: the resolver
\* method is called under a cancelled context too.
execFieldSelection_InvokeIgnoresContext(t) ==
  /\ At(t, "execFieldSelection", "invoke")
  /\ LET fr == Top(t)
         f == fr.f
         fixed == f.field.FixedResult.valid
         cancelled == FALSE
         panics == ~fixed /\ ~cancelled /\ MethodPanics(f.resolver)
         calls == ~fixed /\ ~cancelled /\ ~panics
         fr2 == CASE fixed -> [fr EXCEPT !.result = f.field.FixedResult.v,
                                         !.pc = afterInvocation(fr)]
                  [] cancelled -> [fr EXCEPT !.err = Err(Errorf(ctxErr)),
                                             !.pc = afterInvocation(fr)]
                  [] panics -> [fr EXCEPT
                                  !.err = Err([panicError(NilInterfaceMethod)
                                                 EXCEPT !.Path = toSlice(fr.path)]),
                                  !.pc = afterInvocation(fr)]
                  [] OTHER -> [fr EXCEPT !.pc = "inflight"]
     IN /\ g' = With(t, Replaced(t, fr2), g[t].out)
        /\ Tracer' = TraceField(Tracer, Here(t), fixed, ctxErr)
        /\ Logger' = IF panics THEN Logger + 1 ELSE Logger
        /\ Calls' = IF calls
                    THEN Put(Calls, Here(t),
                             [done |-> FALSE, recv |-> f.resolver, field |-> f.field,
                              sels |-> f.sels,
                              callOut |-> f.resolver.m[f.field.Name]])
                    ELSE Calls
  /\ UNCHANGED <<input, ctxErr, Limiter, Errs, ret, Slots, Objects>>

\* Lines 176-209: the span begins; a fixed result, a cancelled context or a
\* panic of the method lookup end the invocation step, else the resolver
\* method is called.
execFieldSelection_Invoke(t) ==
  /\ At(t, "execFieldSelection", "invoke")
  /\ LET fr == Top(t)
         f == fr.f
         fixed == f.field.FixedResult.valid
         cancelled == ~fixed /\ ctxErr # ""
         panics == ~fixed /\ ~cancelled /\ MethodPanics(f.resolver)
         calls == ~fixed /\ ~cancelled /\ ~panics
         fr2 == CASE fixed -> [fr EXCEPT !.result = f.field.FixedResult.v,
                                         !.pc = afterInvocation(fr)]
                  [] cancelled -> [fr EXCEPT !.err = Err(Errorf(ctxErr)),
                                             !.pc = afterInvocation(fr)]
                  [] panics -> [fr EXCEPT
                                  !.err = Err([panicError(NilInterfaceMethod)
                                                 EXCEPT !.Path = toSlice(fr.path)]),
                                  !.pc = afterInvocation(fr)]
                  [] OTHER -> [fr EXCEPT !.pc = "inflight"]
     IN /\ g' = With(t, Replaced(t, fr2), g[t].out)
        /\ Tracer' = TraceField(Tracer, Here(t), fixed, ctxErr)
        /\ Logger' = IF panics THEN Logger + 1 ELSE Logger
        /\ Calls' = IF calls
                    THEN Put(Calls, Here(t),
                             [done |-> FALSE, recv |-> f.resolver, field |-> f.field,
                              sels |-> f.sels,
                              callOut |-> f.resolver.m[f.field.Name]])
                    ELSE Calls
  /\ UNCHANGED <<input, ctxErr, Limiter, Errs, ret, Slots, Objects>>

\* execFieldSelection_Return without the recover of lines 182-188: a panic
\* of the resolver method unwinds the goroutine.
execFieldSelection_ReturnUnrecovered(t) ==
  /\ At(t, "execFieldSelection", "inflight")
  /\ LET fr == Top(t)
         f == fr.f
         callOut == f.resolver.m[f.field.Name]
         fr2 == IF f.field.HasError /\ callOut.err # ""
                THEN [fr EXCEPT !.result = callOut.res,
                                !.err = Err(QueryError(callOut.err, toSlice(fr.path),
                                                       callOut.err, "")),
                                !.pc = afterInvocation(fr)]
                ELSE [fr EXCEPT !.result = callOut.res, !.pc = afterInvocation(fr)]
     IN /\ IF callOut.panic # ""
           THEN handlePanic(t, callOut.panic)
           ELSE /\ g' = With(t, Replaced(t, fr2), g[t].out)
                /\ UNCHANGED <<Logger, Errs, Tracer>>
        /\ Calls' = [Calls EXCEPT ![Here(t)].done = TRUE]
  /\ UNCHANGED <<input, ctxErr, Limiter, ret, Slots, Objects>>

\* Lines 209-218 and 182-188: the resolver method returns or panics.
execFieldSelection_Return(t) ==
  /\ At(t, "execFieldSelection", "inflight")
  /\ LET fr == Top(t)
         f == fr.f
         callOut == f.resolver.m[f.field.Name]
         fr2 == IF callOut.panic # ""
                THEN [fr EXCEPT !.err = Err([panicError(callOut.panic)
                                               EXCEPT !.Path = toSlice(fr.path)]),
                                !.pc = afterInvocation(fr)]
                ELSE IF f.field.HasError /\ callOut.err # ""
                THEN [fr EXCEPT !.result = callOut.res,
                                !.err = Err(QueryError(callOut.err, toSlice(fr.path),
                                                       callOut.err, "")),
                                !.pc = afterInvocation(fr)]
                ELSE [fr EXCEPT !.result = callOut.res, !.pc = afterInvocation(fr)]
     IN /\ g' = With(t, Replaced(t, fr2), g[t].out)
        /\ Logger' = IF callOut.panic # "" THEN Logger + 1 ELSE Logger
        /\ Calls' = [Calls EXCEPT ![Here(t)].done = TRUE]
  /\ UNCHANGED <<input, ctxErr, Limiter, Errs, ret, Tracer, Slots, Objects>>

\* execFieldSelection_Release without the receive: the slot of the Limiter
\* stays taken.
execFieldSelection_ReleaseKeepsPermit(t) ==
  /\ At(t, "execFieldSelection", "release")
  /\ g' = With(t, Replaced(t, [Top(t) EXCEPT !.pc = "result"]), g[t].out)
  /\ Tracer' = release(Tracer, Here(t))
  /\ UNCHANGED <<input, ctxErr, Limiter, Errs, ret, Logger, Calls, Slots, Objects>>

\* execFieldSelection_Release with the receive after the return of a failed
\* field: only a field without error gives its slot back.
execFieldSelection_ReleaseUnlessFailed(t) ==
  /\ At(t, "execFieldSelection", "release")
  /\ Limiter' = IF Top(t).err.isnil THEN Limiter - 1 ELSE Limiter
  /\ g' = With(t, Replaced(t, [Top(t) EXCEPT !.pc = "result"]), g[t].out)
  /\ Tracer' = IF Top(t).err.isnil THEN release(Tracer, Here(t)) ELSE Tracer
  /\ UNCHANGED <<input, ctxErr, Errs, ret, Logger, Calls, Slots, Objects>>

\* Lines 221-223: <-r.Limiter.
execFieldSelection_Release(t) ==
  /\ At(t, "execFieldSelection", "release")
  /\ Limiter' = Limiter - 1
  /\ g' = With(t, Replaced(t, [Top(t) EXCEPT !.pc = "result"]), g[t].out)
  /\ Tracer' = release(Tracer, Here(t))
  /\ UNCHANGED <<input, ctxErr, Errs, ret, Logger, Calls, Slots, Objects>>

\* execFieldSelection_Result with an error that ends the walk of the whole
\* goroutine after null is written, instead of the field alone.
execFieldSelection_ResultAborts(t) ==
  /\ At(t, "execFieldSelection", "result")
  /\ LET fr == Top(t)
     IN IF ~fr.err.isnil
        THEN /\ Errs' = Append(Errs, fr.err.e)
             /\ g' = With(t, IF t = Main THEN <<ExecuteFrame("walked")>> ELSE <<>>,
                          Append(g[t].out, "null"))
             /\ Tracer' = finishAll(Tracer, t, Len(Stack(t)))
        ELSE /\ g' = With(t, Append(Replaced(t, [fr EXCEPT !.pc = "finish"]),
                                    SelectionSetFrame(fr.f.sels, fr.f.field.Type,
                                                      fr.path, fr.result)),
                         g[t].out)
             /\ UNCHANGED <<Errs, Tracer>>
  /\ UNCHANGED <<input, ctxErr, Limiter, ret, Logger, Calls, Slots, Objects>>

\* Lines 225-231: an error is added and null written, and the deferred
\* finish runs; else the result is serialized.
execFieldSelection_Result(t) ==
  /\ At(t, "execFieldSelection", "result")
  /\ LET fr == Top(t)
     IN IF ~fr.err.isnil
        THEN /\ Errs' = Append(Errs, fr.err.e)
             /\ g' = With(t, Popped(t), Append(g[t].out, "null"))
             /\ Tracer' = finish(Tracer, Here(t))
        ELSE /\ g' = With(t, Append(Replaced(t, [fr EXCEPT !.pc = "finish"]),
                                    SelectionSetFrame(fr.f.sels, fr.f.field.Type,
                                                      fr.path, fr.result)),
                         g[t].out)
             /\ UNCHANGED <<Errs, Tracer>>
  /\ UNCHANGED <<input, ctxErr, Limiter, ret, Logger, Calls, Slots, Objects>>

\* Lines 177-179 and 231: execSelectionSet has returned; the deferred finish.
execFieldSelection_Finish(t) ==
  /\ At(t, "execFieldSelection", "finish")
  /\ g' = With(t, Popped(t), g[t].out)
  /\ Tracer' = finish(Tracer, Here(t))
  /\ UNCHANGED <<input, ctxErr, Limiter, Errs, ret, Logger, Calls, Slots, Objects>>

----------------------------------------------------------------------------
\* Request.execSelectionSet.

elemPath(fr, i) == pathSegment(fr.path, Idx(i))

\* Lines 235-273, 286, 295-310: the case of the type; a list either starts
\* one goroutine per element or opens the bracket of the sequential loop.
execSelectionSet_Begin(t) ==
  /\ At(t, "execSelectionSet", "begin")
  /\ LET fr == Top(t)
         c == execSelectionSetCase(fr.typ, fr.resolver)
     IN CASE c.do = "panic" -> handlePanic(t, c.value)
          [] c.do = "write" ->
               /\ g' = With(t, Popped(t), g[t].out \o c.data)
               /\ UNCHANGED <<Errs, Tracer, Logger>>
          [] c.do = "object" ->
               /\ g' = With(t, Replaced(t, SelectionsFrame(fr.sels, fr.path,
                                             c.resolver, FALSE, Len(g[t].out))),
                           g[t].out)
               /\ UNCHANGED <<Errs, Tracer, Logger>>
          [] c.do = "list" ->
               LET l == Len(c.resolver.elems)
                   async == HasAsyncSel(fr.sels)
                   fr2 == [fr EXCEPT !.pc = IF async THEN "wait" ELSE "next",
                                     !.typ = c.of, !.resolver = c.resolver,
                                     !.l = l, !.i = 0]
               IN /\ g' = IF async
                          THEN [u \in DOMAIN g \cup Children(t, l) |->
                                  IF u = t THEN [stack |-> Replaced(t, fr2), out |-> g[t].out]
                                  ELSE IF u \in DOMAIN g THEN g[u]
                                  ELSE [stack |-> <<SelectionSetFrame(fr.sels, c.of,
                                                      elemPath(fr, u[Len(u)] - 1),
                                                      c.resolver.elems[u[Len(u)]])>>,
                                        out |-> <<>>]]
                          ELSE With(t, Replaced(t, fr2), Append(g[t].out, "["))
                  /\ UNCHANGED <<Errs, Tracer, Logger>>
  /\ UNCHANGED <<input, ctxErr, Limiter, ret, Calls, Slots, Objects>>

\* Lines 287-293, sequential: the next element, or the closing bracket.
execSelectionSet_Next(t) ==
  /\ At(t, "execSelectionSet", "next")
  /\ LET fr == Top(t)
         i == fr.i
         out == g[t].out
         separated == out \o (IF i > 0 THEN <<",">> ELSE <<>>)
     IN /\ g' = IF i < fr.l
                THEN With(t, Append(Replaced(t, [fr EXCEPT !.i = i + 1,
                                                           !.smark = Len(separated)]),
                                    SelectionSetFrame(fr.sels, fr.typ, elemPath(fr, i),
                                                      fr.resolver.elems[i + 1])),
                          separated)
                ELSE With(t, Popped(t), Append(out, "]"))
        /\ Slots' = IF i > 0
                    THEN Put(Slots, Append(Here(t), Idx(i - 1)), After(out, fr.smark))
                    ELSE Slots
  /\ UNCHANGED <<input, ctxErr, Limiter, Errs, ret, Tracer, Logger, Calls, Objects>>

RECURSIVE writeEntries(_, _, _)
writeEntries(t, l, i) ==
  IF i >= l THEN <<>>
  ELSE (IF i > 0 THEN <<",">> ELSE <<>>) \o g[t \o <<i + 1>>].out
       \o writeEntries(t, l, i + 1)

\* Lines 273-283, concurrent: wg.Wait returns and entryouts is copied in
\* index order.
execSelectionSet_Wait(t) ==
  /\ At(t, "execSelectionSet", "wait")
  /\ LET fr == Top(t)
     IN /\ AllDone(t, fr.l)
        /\ g' = [u \in DOMAIN g \ Children(t, fr.l) |->
                   IF u = t
                   THEN [stack |-> Popped(t),
                         out |-> g[t].out \o <<"[">> \o writeEntries(t, fr.l, 0)
                                 \o <<"]">>]
                   ELSE g[u]]
        /\ Slots' = putBuffers(Slots, t, [j \in 1..fr.l |-> Append(Here(t), Idx(j - 1))], 1)
  /\ UNCHANGED <<input, ctxErr, Limiter, Errs, ret, Tracer, Logger, Calls, Objects>>

----------------------------------------------------------------------------
\* The operations and resolvers the model is run on.

TScalar == T("Scalar")
TObject == T("Object")

\* A field whose method takes no context and no arguments and returns no
\* error is synchronous unless a nested selection is asynchronous; a method
\* that returns an error is asynchronous (selected.applySelectionSet).
Getter(alias, name, typ, sels) ==
  SchemaField(alias, name, typ, sels, HasAsyncSel(sels), FALSE)
Method(alias, name, typ, sels) ==
  SchemaField(alias, name, typ, sels, TRUE, TRUE)

Leaf ==
  Resolver("Ptr", [c |-> Returns(Int32(1)), f |-> Fails(NilPtr, "leaf failed")],
           NoNarrowing)

Item(k) ==
  Resolver("Ptr",
    [v |-> IF k = 2 THEN Fails(Int32(0), "bad item") ELSE Returns(Int32(k)),
     w |-> Returns(Int32(10 * k))],
    NoNarrowing)

Human ==
  Resolver("Ptr", [name |-> Returns(String("Luke")), height |-> Returns(Int32(172))],
           NoNarrowing)
Character ==
  Resolver("Ptr",
    [name |-> Returns(String("Luke")), id |-> Returns(Int32(1000))],
    [Human |-> Narrow(TRUE, Human), Droid |-> Narrow(FALSE, NilPtr)])

Root(n) ==
  Resolver("Ptr",
    [a |-> Returns(Int32(5)),
     b |-> Fails(NilPtr, "boom"),
     e |-> Fails(PtrTo(Int32(7)), ""),
     p |-> Panics("oops"),
     leaf |-> Fails(Leaf, ""),
     items |-> Returns(Slice([k \in 1..n |-> Item(k)])),
     holes |-> Returns(Slice([k \in 1..n |-> IF k = 1 THEN NilPtr ELSE Item(k)])),
     nums |-> Returns(Slice([k \in 1..n |-> Int32(k)])),
     hero |-> Returns(Character),
     nilObject |-> Fails(NilPtr, ""),
     nilInterface |-> Fails(NilInterface, ""),
     nilSlice |-> Fails(NilSlice, ""),
     color |-> Returns(PtrTo(String("RED"))),
     ratio |-> Fails(NaN, "")],
    NoNarrowing)

A == Getter("a", "a", NonNull(TScalar), <<>>)
B == Method("b", "b", TScalar, <<>>)
E == Method("e", "e", TScalar, <<>>)
C == Getter("c", "c", NonNull(TScalar), <<>>)

Selections(i) ==
  CASE i = 1 -> <<A, B>>
    [] i = 2 -> <<Getter("items", "items", NonNull(ListOf(NonNull(TObject))),
                         <<Method("v", "v", NonNull(TScalar), <<>>)>>)>>
    [] i = 3 -> <<Getter("items", "items", NonNull(ListOf(NonNull(TObject))),
                         <<Getter("w", "w", NonNull(TScalar), <<>>)>>),
                  Getter("nums", "nums", NonNull(ListOf(NonNull(TScalar))), <<>>)>>
    [] i = 4 -> <<Getter("holes", "holes", NonNull(ListOf(NonNull(TObject))),
                         <<Method("v", "v", NonNull(TScalar), <<>>)>>), E>>
    [] i = 5 -> <<Getter("holes", "holes", NonNull(ListOf(NonNull(TObject))),
                         <<Getter("w", "w", NonNull(TScalar), <<>>)>>), A>>
    [] i = 6 -> <<Getter("x", "hero", T("Interface"),
                         <<Getter("name", "name", NonNull(TScalar), <<>>),
                           TypenameField("t", "Character", {"Human", "Droid"})>>),
                  TypenameField("q", "Query", {}),
                  Getter("x", "hero", T("Interface"),
                         <<TypeAssertion("Human",
                             <<Getter("height", "height", NonNull(TScalar), <<>>),
                               Getter("n", "name", NonNull(TScalar), <<>>)>>),
                           TypeAssertion("Droid",
                             <<Getter("fn", "primaryFunction", NonNull(TScalar), <<>>),
                               TypeAssertion("Human",
                                 <<Getter("h2", "height", NonNull(TScalar), <<>>)>>)>>),
                           Getter("id", "id", NonNull(TScalar), <<>>)>>),
                  TypenameField("q", "Query", {})>>
    [] i = 7 -> <<E, Method("z", "nilObject", TObject, <<C>>), A>>
    [] i = 8 -> <<E, Method("z", "nilObject", NonNull(TObject), <<C>>), A>>
    [] i = 9 -> <<E, Method("z", "nilSlice", NonNull(ListOf(NonNull(TScalar))), <<>>), A>>
    [] i = 10 -> <<E, Method("z", "nilInterface", TObject, <<C>>), A>>
    [] i = 11 -> <<E, Method("z", "nilObject", TScalar, <<>>),
                   Method("y", "nilObject", ListOf(TScalar), <<>>),
                   Getter("color", "color", T("Enum"), <<>>)>>
    [] i = 12 -> <<A, Method("p", "p", TScalar, <<>>),
                   Method("leaf", "leaf", NonNull(TObject),
                          <<C, Method("f", "f", TScalar, <<>>)>>)>>
    [] i = 13 -> <<Method("leaf", "leaf", NonNull(TObject), <<C>>), E,
                   TypenameField("t", "Query", {})>>
    [] i = 14 -> <<A, Method("ratio", "ratio", NonNull(TScalar), <<>>), E>>

Scenarios == 1..14
\* The lengths of the lists of a scenario; only scenarios 2 to 5 select lists.
ListLens(i) == IF i \in 2..5 THEN 0..MaxListLen ELSE {0}
OperationTypes == {"query", "mutation"}

----------------------------------------------------------------------------
Init ==
  /\ \E i \in Scenarios, ty \in OperationTypes : \E n \in ListLens(i) :
       /\ op = [Type |-> ty, Name |-> i, Sels |-> Selections(i)]
       /\ schemaResolver = Root(n)
  /\ limiterCap \in 1..MaxLimiterCap
  /\ ctxErr = ""
  /\ Limiter = 0
  /\ Errs = <<>>
  /\ g = [u \in {Main} |-> [stack |-> <<ExecuteFrame("start")>>, out |-> <<>>]]
  /\ ret = [returned |-> FALSE, isnil |-> TRUE, bytes |-> <<>>, errs |-> <<>>]
  /\ Tracer = [x \in {} |-> NoSpan]
  /\ Logger = 0
  /\ Calls = [x \in {} |-> 0]
  /\ Slots = [x \in {} |-> <<>>]
  /\ Objects = [x \in {} |-> 0]

Next ==
  \/ Execute_Walk
  \/ Execute_Return
  \/ Cancel
  \/ \E t \in DOMAIN g : execSelections_Collect(t)
  \/ \E t \in DOMAIN g : execSelections_Next(t)
  \/ \E t \in DOMAIN g : execSelections_Wait(t)
  \/ \E t \in DOMAIN g : execFieldSelection_Acquire(t)
  \/ \E t \in DOMAIN g : execFieldSelection_Invoke(t)
  \/ \E t \in DOMAIN g : execFieldSelection_Return(t)
  \/ \E t \in DOMAIN g : execFieldSelection_Release(t)
  \/ \E t \in DOMAIN g : execFieldSelection_Result(t)
  \/ \E t \in DOMAIN g : execFieldSelection_Finish(t)
  \/ \E t \in DOMAIN g : execSelectionSet_Begin(t)
  \/ \E t \in DOMAIN g : execSelectionSet_Next(t)
  \/ \E t \in DOMAIN g : execSelectionSet_Wait(t)

Spec == Init /\ [][Next]_vars

\* The steps of Execute and of the goroutines it starts: every step but the
\* caller's cancellation.
Progress ==
  \/ Execute_Walk
  \/ Execute_Return
  \/ \E t \in DOMAIN g :
       \/ execSelections_Collect(t)
       \/ execSelections_Next(t)
       \/ execSelections_Wait(t)
       \/ execFieldSelection_Acquire(t)
       \/ execFieldSelection_Invoke(t)
       \/ execFieldSelection_Return(t)
       \/ execFieldSelection_Release(t)
       \/ execFieldSelection_Result(t)
       \/ execFieldSelection_Finish(t)
       \/ execSelectionSet_Begin(t)
       \/ execSelectionSet_Next(t)
       \/ execSelectionSet_Wait(t)

\* The operations on which termination is checked: fields in goroutines of
\* their own, lists written sequentially and concurrently, a list element
\* and a field whose serialization panics, merged selections.
TerminationScenarios == {1, 3, 4, 5, 6, 8}
FairInit == Init /\ op.Name \in TerminationScenarios

\* The Go scheduler runs some goroutine that can run, and every resolver
\* method that was called returns; nothing obliges the caller to cancel.
FairSpec == FairInit /\ [][Next]_vars /\ WF_vars(Progress)

----------------------------------------------------------------------------
\* Properties.

\* The bytes of a buffer, as one string.
RECURSIVE Bytes(_)
Bytes(out) == IF Len(out) = 0 THEN "" ELSE Head(out) \o Bytes(Tail(out))

\* The path every frame carries is its location: the aliases and list
\* indices from the root to it.
PathsAgree ==
  \A t \in DOMAIN g : \A j \in 1..Len(Stack(t)) :
    Stack(t)[j].fn # "Execute" => toSlice(Stack(t)[j].path) = Loc(t, j)

\* A field is executing at loc.
Executing(loc) ==
  \E t \in DOMAIN g : \E j \in 1..Len(Stack(t)) :
    Stack(t)[j].fn = "execFieldSelection" /\ Loc(t, j) = loc

ErrorsAt(loc) == {k \in 1..Len(Errs) : Errs[k].Path = loc}

\* A panic that no field recovered: handlePanic added its error, without
\* a path.
EscapedPanics == {k \in 1..Len(Errs) : Errs[k].PanicValue # "" /\ Errs[k].Path = <<>>}

\* C1: when the context is cancelled by the time the walk has ended,
\* Execute returns nil bytes and exactly one QueryError, whose original
\* error is the error of the context, whatever was written and collected.
C1_CancelledReturnsOneError ==
  (ret.returned /\ ctxErr # "") =>
    /\ ret.isnil
    /\ ret.bytes = <<>>
    /\ ret.errs = <<QueryError(CtxCanceled, <<>>, CtxCanceled, "")>>

\* C1's case: Execute has returned under a cancelled context after bytes
\* were written and errors collected, one of them of a panic.
C1_Witness ==
  /\ ret.returned
  /\ ctxErr # ""
  /\ Len(g[Main].out) > 0
  /\ Len(Errs) > 1
  /\ EscapedPanics # {}

\* The call at loc returned a non-nil error.
ResolverFailed(loc) ==
  /\ Calls[loc].done
  /\ Calls[loc].field.HasError
  /\ Calls[loc].callOut.panic = ""
  /\ Calls[loc].callOut.err # ""

\* C2: a field whose resolver method returned a non-nil error adds exactly
\* one QueryError, with the field's location as path and the resolver's
\* error as original error, and its slot holds exactly null; the operation
\* {a, b} with a = 5 and b failing gives {"a":5,"b":null} and one error
\* with path ["b"].
C2_ResolverErrorIsOneErrorAndNull ==
  /\ PathsAgree
  /\ \A loc \in DOMAIN Calls :
       ResolverFailed(loc) =>
         /\ IF Executing(loc) THEN ErrorsAt(loc) = {}
            ELSE /\ Cardinality(ErrorsAt(loc)) = 1
                 /\ \A k \in ErrorsAt(loc) :
                      Errs[k] = QueryError(Calls[loc].callOut.err, loc,
                                           Calls[loc].callOut.err, "")
         /\ loc \in DOMAIN Slots => Slots[loc] = <<"null">>
  /\ (op.Name = 1 /\ ret.returned /\ ctxErr = "") =>
       /\ Bytes(ret.bytes) = "{\"a\":5,\"b\":null}"
       /\ Len(ret.errs) = 1
       /\ ret.errs[1].Path = <<Key("b")>>
       /\ ret.errs[1].OriginalError = "boom"

\* C2's case: a field of an element of a list failed, its error is in the
\* list and its slot is recorded.
C2_Witness ==
  \E loc \in DOMAIN Calls :
    /\ ResolverFailed(loc)
    /\ Len(loc) = 3
    /\ loc \in DOMAIN Slots
    /\ ErrorsAt(loc) # {}
    /\ ctxErr = ""

----------------------------------------------------------------------------
Front(loc) == SubSeq(loc, 1, Len(loc) - 1)
IsUnder(loc, prefix) ==
  Len(loc) >= Len(prefix) /\ SubSeq(loc, 1, Len(prefix)) = prefix

\* The call at loc ended in a field-level failure: a non-nil error or a
\* panic of the resolver method.
FieldFailed(loc) ==
  /\ Calls[loc].done
  /\ \/ Calls[loc].callOut.panic # ""
     \/ Calls[loc].field.HasError /\ Calls[loc].callOut.err # ""

\* The object at loc as its keys and the slots of its fields compose it.
RECURSIVE JoinSlots(_, _, _)
JoinSlots(loc, keys, k) ==
  IF k > Len(keys) THEN <<>>
  ELSE writeKey(k, keys[k]) \o Slots[Append(loc, Key(keys[k]))]
       \o JoinSlots(loc, keys, k + 1)
ObjectOf(loc) == <<"{">> \o JoinSlots(loc, Objects[loc].keys, 1) \o <<"}">>

\* C3: a field-level failure (resolver error or resolver panic) writes
\* null in the slot of that field only; unless a panic escaped a field,
\* the enclosing object is completed, in the sequential and in the
\* concurrent mode alike: every sibling was executed, has its slot, and
\* the object is the keys in order with those slots between braces.
C3_FailureNullsOneField ==
  /\ \A loc \in DOMAIN Calls :
       FieldFailed(loc) =>
         /\ loc \in DOMAIN Slots => Slots[loc] = <<"null">>
         /\ (ret.returned /\ EscapedPanics = {}) =>
              /\ loc \in DOMAIN Slots
              /\ Front(loc) \in DOMAIN Objects
              /\ \A k \in 1..Len(Objects[Front(loc)].keys) :
                   LET sibling == Append(Front(loc), Key(Objects[Front(loc)].keys[k]))
                   IN /\ Span(Tracer, sibling).begun = 1
                      /\ Span(Tracer, sibling).finished = 1
                      /\ sibling \in DOMAIN Slots
                      /\ Len(Slots[sibling]) > 0
              /\ Objects[Front(loc)].out = ObjectOf(Front(loc))
  /\ (op.Name = 12 /\ ret.returned /\ ctxErr = "") =>
       Bytes(ret.bytes) = "{\"a\":5,\"p\":null,\"leaf\":{\"c\":1,\"f\":null}}"

\* C3's case: Execute has returned after a failure in an object written
\* sequentially and a failure in an object written concurrently, each with
\* a sibling that succeeded.
C3_Witness ==
  /\ ret.returned
  /\ ctxErr = ""
  /\ \E l1, l2 \in DOMAIN Calls :
       /\ FieldFailed(l1) /\ FieldFailed(l2)
       /\ Front(l1) \in DOMAIN Objects /\ Front(l2) \in DOMAIN Objects
       /\ Objects[Front(l1)].async /\ ~Objects[Front(l2)].async
       /\ Calls[l1].callOut.panic = "" /\ Calls[l2].callOut.panic # ""
       /\ \E s1, s2 \in DOMAIN Slots :
            /\ Front(s1) = Front(l1) /\ Slots[s1] # <<"null">>
            /\ Front(s2) = Front(l2) /\ Slots[s2] # <<"null">>

----------------------------------------------------------------------------
\* The occurrences of aliases in a selection set, in the order of the
\* traversal, type assertions that hold entered: each with the resolver and
\* the field it would fix and the nested selections it contributes.
RECURSIVE Occurrences(_, _)
Occurrences(sels, resolver) ==
  IF Len(sels) = 0 THEN <<>>
  ELSE LET sel == Head(sels)
       IN (CASE sel.kind = "SchemaField" ->
                  <<[Alias |-> sel.Alias, Name |-> sel.Name, Sels |-> sel.Sels,
                     resolver |-> resolver]>>
             [] sel.kind = "TypenameField" ->
                  <<[Alias |-> sel.Alias, Name |-> "__typename", Sels |-> <<>>,
                     resolver |-> resolver]>>
             [] OTHER ->
                  IF ~MethodPanics(resolver) /\ resolver.is[sel.Method].ok
                  THEN Occurrences(sel.Sels, resolver.is[sel.Method].res)
                  ELSE <<>>)
          \o Occurrences(Tail(sels), resolver)

\* The indices of the occurrences that are the first of their alias.
RECURSIVE FirstSeen(_, _)
FirstSeen(occ, k) ==
  IF k > Len(occ) THEN <<>>
  ELSE (IF \E j \in 1..(k - 1) : occ[j].Alias = occ[k].Alias THEN <<>> ELSE <<k>>)
       \o FirstSeen(occ, k + 1)

\* The nested selections of all occurrences of alias, in order.
RECURSIVE Accumulated(_, _, _)
Accumulated(occ, alias, k) ==
  IF k > Len(occ) THEN <<>>
  ELSE (IF occ[k].Alias = alias THEN occ[k].Sels ELSE <<>>)
       \o Accumulated(occ, alias, k + 1)

MergedAsClaimed(fields, sels, resolver) ==
  LET occ == Occurrences(sels, resolver)
      first == FirstSeen(occ, 1)
  IN /\ Len(fields) = Len(first)
     /\ \A k \in 1..Len(first) :
          /\ fields[k].field.Alias = occ[first[k]].Alias
          /\ fields[k].field.Name = occ[first[k]].Name
          /\ fields[k].resolver = occ[first[k]].resolver
          /\ fields[k].sels = Accumulated(occ, occ[first[k]].Alias, 1)

\* C4, as the specification states it: the merge of every selection set
\* yields one entry per distinct alias, in the order the aliases are first
\* seen, the first occurrence fixing resolver and field and the nested
\* selections of all occurrences accumulated in order; the object written
\* lists its keys in that order.
C4_OneEntryPerAlias ==
  /\ \A t \in DOMAIN g : \A j \in 1..Len(Stack(t)) :
       (Stack(t)[j].fn = "execSelections" /\ Stack(t)[j].pc # "begin") =>
         MergedAsClaimed(Stack(t)[j].fields, Stack(t)[j].sels, Stack(t)[j].resolver)
  /\ \A loc \in DOMAIN Objects :
       LET occ == Occurrences(Objects[loc].sels, Objects[loc].resolver)
           first == FirstSeen(occ, 1)
       IN /\ Objects[loc].keys = [k \in 1..Len(first) |-> occ[first[k]].Alias]
          /\ EscapedPanics = {} => Objects[loc].out = ObjectOf(loc)

----------------------------------------------------------------------------
\* The list value the call at loc returned, when its field is of a list
\* type and the value is not an absent nullable one.
IsListCall(loc) ==
  /\ Calls[loc].done
  /\ ~FieldFailed(loc)
  /\ Calls[loc].field.Type.kind = "List"
  /\ execSelectionSetCase(Calls[loc].field.Type, Calls[loc].callOut.res).do = "list"
ListElems(loc) ==
  execSelectionSetCase(Calls[loc].field.Type, Calls[loc].callOut.res).resolver.elems
ListOfType(loc) ==
  execSelectionSetCase(Calls[loc].field.Type, Calls[loc].callOut.res).of

RECURSIVE JoinEntries(_, _, _)
JoinEntries(loc, n, i) ==
  IF i >= n THEN <<>>
  ELSE (IF i > 0 THEN <<",">> ELSE <<>>) \o Slots[Append(loc, Idx(i))]
       \o JoinEntries(loc, n, i + 1)

\* The entry at e is the serialization of the value v of type typ: the
\* bytes of a scalar or of null, or the object written for the resolver v.
\* A value whose serialization panics has none.
EntryIs(e, typ, v) ==
  LET c == execSelectionSetCase(typ, v)
  IN CASE c.do = "write" -> Slots[e] = c.data
       [] c.do = "object" ->
            /\ e \in DOMAIN Objects
            /\ Objects[e].resolver = v
            /\ Slots[e] = Objects[e].out
            /\ \A l \in DOMAIN Calls : (Len(l) > 0 /\ Front(l) = e) => Calls[l].recv = v
       [] OTHER -> FALSE

EntriesWritten(loc) ==
  \A i \in 0..(Len(ListElems(loc)) - 1) : Append(loc, Idx(i)) \in DOMAIN Slots

Serializes(typ, v) == execSelectionSetCase(typ, v).do # "panic"

\* C5, as the specification states it: by the time Execute returns, every
\* list of n elements a resolver returned has been serialized, by one
\* goroutine per element or by the sequential loop, as "[" n entries
\* separated by commas "]", and entry i is the serialization of element i.
C5_ListEntriesInIndexOrder ==
  \A loc \in DOMAIN Calls :
    (IsListCall(loc) /\ ret.returned) =>
      /\ loc \in DOMAIN Slots
      /\ EntriesWritten(loc)
      /\ Slots[loc] = <<"[">> \o JoinEntries(loc, Len(ListElems(loc)), 0) \o <<"]">>
      /\ \A i \in 0..(Len(ListElems(loc)) - 1) :
           EntryIs(Append(loc, Idx(i)), ListOfType(loc), ListElems(loc)[i + 1])

\* What does hold of lists: a list whose entries have all been written is
\* the composition of its n entries in index order, each entry being the
\* serialization of its element or, for an element whose serialization
\* panicked in its goroutine, empty; and a list is serialized by the time
\* Execute returns unless a panic escaped a field.
ListEntriesWhereSerialized ==
  \A loc \in DOMAIN Calls :
    IsListCall(loc) =>
      /\ (loc \in DOMAIN Slots /\ EntriesWritten(loc)) =>
           /\ Slots[loc] = <<"[">> \o JoinEntries(loc, Len(ListElems(loc)), 0) \o <<"]">>
           /\ \A i \in 0..(Len(ListElems(loc)) - 1) :
                IF Serializes(ListOfType(loc), ListElems(loc)[i + 1])
                THEN EntryIs(Append(loc, Idx(i)), ListOfType(loc), ListElems(loc)[i + 1])
                ELSE Slots[Append(loc, Idx(i))] = <<>>
      /\ (ret.returned /\ EscapedPanics = {}) =>
           loc \in DOMAIN Slots /\ EntriesWritten(loc)

----------------------------------------------------------------------------
\* The call at loc returned, without error, an absent value: a nil pointer,
\* a nil interface or a nil slice.
ReturnedAbsent(loc) ==
  /\ Calls[loc].done
  /\ ~FieldFailed(loc)
  /\ CanBeNil(Calls[loc].callOut.res)
  /\ Calls[loc].callOut.res.isnil

ErrorsUnder(loc) == {k \in 1..Len(Errs) : IsUnder(Errs[k].Path, loc)}
NullToken(loc) == loc \in DOMAIN Slots /\ Slots[loc] = <<"null">>

\* C6, as the specification states it: a field of a non-null type, of any
\* inner kind, whose resolver returned an absent value never has null as
\* its slot, and by the time Execute returns an error has been added.
C6_NonNullAbsentAddsError ==
  \A loc \in DOMAIN Calls :
    (ReturnedAbsent(loc) /\ Calls[loc].field.Type.nn) =>
      /\ ~NullToken(loc)
      /\ ret.returned => Len(Errs) >= 1

\* C6, amended: a field of a non-null object, interface or union type whose
\* resolver returned a nil pointer never has null as its slot, and once the
\* field has ended the error of the panic "got nil for non-null" has been
\* added and the panic logged.
C6_NonNullNilPointerPanics ==
  \A loc \in DOMAIN Calls :
    (/\ ReturnedAbsent(loc)
     /\ Calls[loc].field.Type.nn
     /\ Calls[loc].field.Type.kind \in {"Object", "Interface", "Union"}
     /\ Calls[loc].callOut.res.k = "Ptr") =>
      /\ ~NullToken(loc)
      /\ (~Executing(loc) \/ ret.returned) =>
           /\ \E k \in 1..Len(Errs) : Errs[k].PanicValue = GotNil
           /\ Logger >= 1

\* The amended C6's case: Execute has returned, not cancelled, after a
\* non-null object field got a nil pointer from its resolver.
C6_Witness ==
  /\ ret.returned
  /\ ctxErr = ""
  /\ \E loc \in DOMAIN Calls :
       /\ ReturnedAbsent(loc)
       /\ Calls[loc].field.Type.nn
       /\ Calls[loc].field.Type.kind = "Object"
       /\ Calls[loc].callOut.res.k = "Ptr"
       /\ \E k \in 1..Len(ret.errs) : ret.errs[k].PanicValue = GotNil

----------------------------------------------------------------------------
\* C7, as the specification states it: a field of a nullable type whose
\* resolver returned an absent value without error has exactly null as its
\* slot, no error is recorded at or below it, and no resolver method of a
\* nested selection is called.
C7_NullableAbsentIsNull ==
  \A loc \in DOMAIN Calls :
    (ReturnedAbsent(loc) /\ ~Calls[loc].field.Type.nn) =>
      /\ loc \in DOMAIN Slots => Slots[loc] = <<"null">>
      /\ ErrorsUnder(loc) = {}
      /\ \A l \in DOMAIN Calls : IsUnder(l, loc) => l = loc

----------------------------------------------------------------------------
\* The walk of the root selections is on the stack of Execute's goroutine,
\* past the merge.
RootWalk ==
  /\ Len(Stack(Main)) >= 2
  /\ Stack(Main)[2].fn = "execSelections"
  /\ Stack(Main)[2].pc # "begin"
\* The index of the root field the sequential loop is at, and its location.
CurrentRoot == Stack(Main)[2].i - 1
RootLoc(k) == <<Key(Stack(Main)[2].fields[k].field.Alias)>>

\* C8: in a mutation every field being executed, in any goroutine, is the
\* root field the sequential loop is at or below it; no field of a later
\* root field has been started; every earlier root field has ended, its
\* resolver has returned and its result is in its slot.
C8_MutationRootFieldsInOrder ==
  op.Type = "mutation" =>
    /\ \A t \in DOMAIN g : \A j \in 1..Len(Stack(t)) :
         Stack(t)[j].fn = "execFieldSelection" =>
           /\ RootWalk
           /\ Stack(Main)[2].pc = "next"
           /\ CurrentRoot >= 1
           /\ IsUnder(Loc(t, j), RootLoc(CurrentRoot))
    /\ RootWalk =>
         /\ \A loc \in DOMAIN Tracer \cup DOMAIN Calls :
              \E k \in 1..CurrentRoot : IsUnder(loc, RootLoc(k))
         /\ \A k \in 1..(CurrentRoot - 1) :
              /\ RootLoc(k) \in DOMAIN Slots
              /\ Len(Slots[RootLoc(k)]) > 0
              /\ Span(Tracer, RootLoc(k)).finished >= 1
              /\ RootLoc(k) \in DOMAIN Calls => Calls[RootLoc(k)].done
              /\ RootLoc(k) # RootLoc(CurrentRoot) => ~Executing(RootLoc(k))

\* C8's case: in a mutation a resolver method is in flight in a goroutine
\* started below the third root field, the second root field being marked
\* asynchronous and already serialized.
C8_Witness ==
  /\ op.Type = "mutation"
  /\ RootWalk
  /\ CurrentRoot >= 3
  /\ Stack(Main)[2].fields[2].field.Async
  /\ Stack(Main)[2].fields[CurrentRoot].field.Async
  /\ RootLoc(2) \in DOMAIN Slots
  /\ \E t \in DOMAIN g \ {Main} : At(t, "execFieldSelection", "inflight")

----------------------------------------------------------------------------
\* The goroutines with a resolver method called and not yet returned, and
\* those of them whose field took a slot of the Limiter.
InFlight == {t \in DOMAIN g : At(t, "execFieldSelection", "inflight")}
LimitedInFlight == {t \in InFlight : Top(t).applyLimiter}
\* The goroutines blocked on the send to the Limiter.
Blocked == {t \in DOMAIN g : At(t, "execFieldSelection", "acquire")}

\* C9, as the specification states it: the resolver method calls in flight,
\* over all fields of all selection sets at all levels, are never more than
\* the capacity of the Limiter.
C9_InFlightAtMostCapacity == Cardinality(InFlight) <= limiterCap

\* C9, amended: the resolver method calls in flight of fields executed in
\* goroutines of their own (the fields of the selection sets that run
\* concurrently) are never more than the slots taken of the Limiter, which
\* are never more than its capacity.
C9_LimitedInFlightAtMostCapacity ==
  /\ Cardinality(LimitedInFlight) <= Limiter
  /\ Limiter <= limiterCap

\* The amended C9's case: the Limiter is full, as many resolver calls of
\* concurrent fields are in flight as it has slots, and a further field is
\* blocked on it.
C9_Witness ==
  /\ limiterCap = MaxLimiterCap
  /\ Limiter = limiterCap
  /\ Cardinality(LimitedInFlight) = limiterCap
  /\ Blocked # {}

----------------------------------------------------------------------------
\* The execution with every selection set and every list walked by the
\* sequential loops (execSelections with async false, execSelectionSet
\* without the fan-out), under a context that is not cancelled, as one
\* evaluation: out is what is written to the buffer and panic tells that a
\* panic ended the walk, after which nothing more is written.

RECURSIVE seqSelections(_, _)
RECURSIVE seqFields(_, _, _)
RECURSIVE seqField(_)
RECURSIVE seqSelectionSet(_, _, _)
RECURSIVE seqElems(_, _, _, _, _)

seqSelections(sels, resolver) ==
  LET c == collectFieldsToResolve(sels, resolver, NoFields, <<"Human", "Droid">>)
  IN IF c.panic # "" THEN [out |-> <<>>, panic |-> TRUE]
     ELSE seqFields(c.fields, 1, <<"{">>)

seqFields(fields, i, acc) ==
  IF i > Len(fields) THEN [out |-> Append(acc, "}"), panic |-> FALSE]
  ELSE LET r == seqField(fields[i])
           written == acc \o writeKey(i, fields[i].field.Alias) \o r.out
       IN IF r.panic THEN [out |-> written, panic |-> TRUE]
          ELSE seqFields(fields, i + 1, written)

seqField(f) ==
  IF f.field.FixedResult.valid
  THEN seqSelectionSet(f.sels, f.field.Type, f.field.FixedResult.v)
  ELSE IF MethodPanics(f.resolver) THEN [out |-> <<"null">>, panic |-> FALSE]
  ELSE LET callOut == f.resolver.m[f.field.Name]
       IN IF callOut.panic # "" \/ (f.field.HasError /\ callOut.err # "")
          THEN [out |-> <<"null">>, panic |-> FALSE]
          ELSE seqSelectionSet(f.sels, f.field.Type, callOut.res)

seqSelectionSet(sels, typ, resolver) ==
  LET c == execSelectionSetCase(typ, resolver)
  IN CASE c.do = "panic" -> [out |-> <<>>, panic |-> TRUE]
       [] c.do = "write" -> [out |-> c.data, panic |-> FALSE]
       [] c.do = "object" -> seqSelections(sels, c.resolver)
       [] c.do = "list" -> seqElems(sels, c.of, c.resolver.elems, 1, <<"[">>)

seqElems(sels, typ, elems, i, acc) ==
  IF i > Len(elems) THEN [out |-> Append(acc, "]"), panic |-> FALSE]
  ELSE LET r == seqSelectionSet(sels, typ, elems[i])
           written == acc \o (IF i > 1 THEN <<",">> ELSE <<>>) \o r.out
       IN IF r.panic THEN [out |-> written, panic |-> TRUE]
          ELSE seqElems(sels, typ, elems, i + 1, written)

\* C10, as the specification states it: the bytes Execute returns, with
\* the selection sets and lists that fan out executed concurrently, are in
\* every interleaving the bytes of the sequential execution of the same
\* operation on the same resolvers.
C10_ConcurrentBytesAreSequentialBytes ==
  (ret.returned /\ ctxErr = "") =>
    ret.bytes = seqSelections(op.Sels, schemaResolver).out

\* What does hold of the two modes: when no panic escaped a field, the
\* bytes returned are those of the sequential execution.
SequentialBytesWhenNoPanicEscapes ==
  (ret.returned /\ ctxErr = "" /\ EscapedPanics = {}) =>
    ret.bytes = seqSelections(op.Sels, schemaResolver).out

----------------------------------------------------------------------------
\* The errors of panics, and the fields that recovered a panic of their
\* invocation step and have not yet added its error.
PanicErrors == {k \in 1..Len(Errs) : Errs[k].PanicValue # ""}
PendingPanics ==
  {x \in UNION {{<<t, j>> : j \in 1..Len(Stack(t))} : t \in DOMAIN g} :
     /\ Stack(x[1])[x[2]].fn = "execFieldSelection"
     /\ ~Stack(x[1])[x[2]].err.isnil
     /\ Stack(x[1])[x[2]].err.e.PanicValue # ""}

\* The fields of the object written at loc, as merged.
FieldsOf(loc) ==
  collectFieldsToResolve(Objects[loc].sels, Objects[loc].resolver, NoFields,
                         <<"Human", "Droid">>).fields

\* C11: every panic is recovered, by the field for its invocation step,
\* else by handlePanic at the bottom of the goroutine (Execute's or the
\* task's own): it is logged and adds exactly one error "internal server
\* error" with the panic value, so the panics logged are the panic errors
\* added plus those a field is about to add; a goroutine that panicked has
\* ended; and in an object or list written from the buffers of tasks, the
\* bytes of every task whose own serialization does not panic are what that
\* field or element serializes to, whatever its siblings did.
C11_PanicsAreRecoveredPerTask ==
  /\ Logger = Cardinality(PanicErrors) + Cardinality(PendingPanics)
  /\ \A k \in PanicErrors :
       /\ Errs[k].Message = "internal server error"
       /\ Errs[k].OriginalError = ""
  /\ \A k \in EscapedPanics :
       Errs[k].PanicValue \in {GotNil, CouldNotMarshal, NilInterfaceMethod}
  /\ ret.returned => \A t \in DOMAIN g : Len(Stack(t)) = 0
  /\ ctxErr = "" =>
       /\ \A loc \in DOMAIN Objects :
            Objects[loc].async =>
              \A k \in 1..Len(FieldsOf(loc)) :
                LET f == FieldsOf(loc)[k]
                IN ~seqField(f).panic =>
                     Slots[Append(loc, Key(f.field.Alias))] = seqField(f).out
       /\ \A loc \in DOMAIN Calls :
            (IsListCall(loc) /\ HasAsyncSel(Calls[loc].sels)
               /\ loc \in DOMAIN Slots) =>
              \A i \in 1..Len(ListElems(loc)) :
                LET r == seqSelectionSet(Calls[loc].sels, ListOfType(loc),
                                         ListElems(loc)[i])
                IN ~r.panic => Slots[Append(loc, Idx(i - 1))] = r.out

\* C11's case: Execute has returned, not cancelled, after a task of a
\* concurrent object panicked and left its buffer empty while a sibling
\* wrote its value, and the error of the panic is returned.
C11_Witness ==
  /\ ret.returned
  /\ ctxErr = ""
  /\ \E k \in 1..Len(ret.errs) :
       ret.errs[k].PanicValue = GotNil /\ ret.errs[k].Path = <<>>
  /\ \E loc \in DOMAIN Objects :
       /\ Objects[loc].async
       /\ \E a, b \in 1..Len(FieldsOf(loc)) :
            /\ seqField(FieldsOf(loc)[a]).panic
            /\ Slots[Append(loc, Key(FieldsOf(loc)[a].field.Alias))] = <<>>
            /\ ~seqField(FieldsOf(loc)[b]).panic
            /\ Len(Slots[Append(loc, Key(FieldsOf(loc)[b].field.Alias))]) > 0

----------------------------------------------------------------------------
\* The activations of the goroutines, as pairs of goroutine and depth.
Frames == UNION {{<<t, j>> : j \in 1..Len(Stack(t))} : t \in DOMAIN g}
FrameOf(x) == Stack(x[1])[x[2]]
FieldFrames == {x \in Frames : FrameOf(x).fn = "execFieldSelection"}
\* The fields that have sent to the Limiter and not yet received from it.
Holding ==
  {x \in FieldFrames : FrameOf(x).applyLimiter
                         /\ FrameOf(x).pc \in {"invoke", "inflight", "release"}}
\* The field of x is run by a goroutine of its own, started by the
\* concurrent branch of execSelections.
InConcurrentSet(x) ==
  /\ x[1] # Main
  /\ x[2] = 1
  /\ Top(SubSeq(x[1], 1, Len(x[1]) - 1)).fn = "execSelections"

\* C12: the fields of a selection set that runs concurrently, and no
\* others, take one slot of the Limiter before the invocation step and give
\* it back right after it, whatever its outcome, before the result is
\* serialized and nested selections are executed; the slots taken are
\* those of the fields between the two points, never more than the
\* capacity, and none when Execute has returned.
C12_OnePermitAroundInvocation ==
  /\ Limiter = Cardinality(Holding)
  /\ Limiter <= limiterCap
  /\ ret.returned => Limiter = 0
  /\ \A x \in FieldFrames :
       LET fr == FrameOf(x)
           sp == Span(Tracer, Loc(x[1], x[2]))
       IN /\ fr.applyLimiter <=> InConcurrentSet(x)
          /\ ~fr.applyLimiter => sp.acquired = 0 /\ sp.released = 0
          /\ fr.applyLimiter =>
               /\ sp.acquired = (IF fr.pc = "acquire" THEN 0 ELSE 1)
               /\ sp.released = (IF fr.pc \in {"result", "finish"} THEN 1 ELSE 0)
               /\ fr.pc \in {"acquire", "invoke"} =>
                    sp.begun = 0 /\ Loc(x[1], x[2]) \notin DOMAIN Calls
               /\ (fr.pc \in {"release", "result", "finish"}
                     /\ Loc(x[1], x[2]) \in DOMAIN Calls) =>
                    Calls[Loc(x[1], x[2])].done
          /\ x[2] < Len(Stack(x[1])) => fr.pc = "finish"
  /\ \A loc \in DOMAIN Tracer :
       ~Executing(loc) =>
         /\ Tracer[loc].acquired = Tracer[loc].released
         /\ Tracer[loc].acquired <= 1
  /\ \A loc \in DOMAIN Objects :
       \A k \in 1..Len(Objects[loc].keys) :
         Span(Tracer, Append(loc, Key(Objects[loc].keys[k]))).released
           = (IF Objects[loc].async THEN 1 ELSE 0)

\* C12's case: Execute has returned with the Limiter empty after fields of
\* concurrent selection sets ended by a panic of the resolver, by a resolver
\* error, by a cancelled context or a fixed result, and by success, each
\* having taken and given back one slot.
C12_Witness ==
  /\ ret.returned
  /\ Limiter = 0
  /\ \E l1, l2, l3, l4 \in DOMAIN Tracer :
       /\ \A l \in {l1, l2, l3, l4} :
            Tracer[l].acquired = 1 /\ Tracer[l].released = 1
       /\ l1 \in DOMAIN Calls /\ Calls[l1].callOut.panic # "" /\ Calls[l1].done
       /\ l2 \in DOMAIN Calls /\ ResolverFailed(l2)
       /\ l3 \notin DOMAIN Calls
       /\ l4 \in DOMAIN Calls /\ Calls[l4].done /\ ~FieldFailed(l4)

----------------------------------------------------------------------------
\* The fields without a fixed result whose invocation step found the
\* context cancelled.
FoundCancelled ==
  {loc \in DOMAIN Tracer :
     Tracer[loc].begun >= 1 /\ ~Tracer[loc].fixed /\ Tracer[loc].ctx # ""}
CancellationErrors ==
  {k \in 1..Len(Errs) : Errs[k].Message = CtxCanceled /\ Errs[k].PanicValue = ""}

\* C13: a field without a fixed result that reaches its invocation step
\* under a cancelled context never has its resolver method called, has
\* null as its slot, has nothing executed below it, and adds one error: the
\* errors of cancellation are as many as such fields that have ended.  A
\* field with a fixed result has its value as slot, cancelled or not.
C13_CancelledFieldIsNotInvoked ==
  /\ \A loc \in FoundCancelled :
       /\ loc \notin DOMAIN Calls
       /\ Tracer[loc].begun = 1
       /\ loc \in DOMAIN Slots => Slots[loc] = <<"null">>
       /\ \A l \in DOMAIN Tracer \cup DOMAIN Calls \cup DOMAIN Slots :
            IsUnder(l, loc) => l = loc
  /\ Cardinality(CancellationErrors)
       = Cardinality({loc \in FoundCancelled : ~Executing(loc)})
  /\ \A loc \in DOMAIN Objects :
       \A k \in 1..Len(FieldsOf(loc)) :
         LET f == FieldsOf(loc)[k].field
             at == Append(loc, Key(f.Alias))
         IN f.FixedResult.valid =>
              /\ Tracer[at].fixed
              /\ Slots[at] = <<jsonMarshal(f.FixedResult.v).data>>

\* C13's case: Execute has returned after a field found the context
\* cancelled and wrote null, a typename field under the cancelled context
\* wrote its value, and a resolver method had been called before.
C13_Witness ==
  /\ ret.returned
  /\ \E loc \in FoundCancelled : loc \in DOMAIN Slots /\ Len(loc) >= 2
  /\ \E loc \in DOMAIN Slots :
       /\ loc \in DOMAIN Tracer
       /\ Tracer[loc].fixed
       /\ Tracer[loc].ctx # ""
       /\ Slots[loc] = <<"\"Human\"">>
  /\ DOMAIN Calls # {}

----------------------------------------------------------------------------
\* C14, as the specification states it: the error added for a field whose
\* invocation step found the context cancelled carries, as the error of a
\* resolver does, the path of the field and the cancellation cause as its
\* original error.
C14_CancellationErrorHasPathAndCause ==
  \A loc \in FoundCancelled :
    ~Executing(loc) =>
      \E k \in 1..Len(Errs) :
        /\ Errs[k].Path = loc
        /\ Errs[k].OriginalError = CtxCanceled

----------------------------------------------------------------------------
\* The resolver method called at loc panicked.
InvocationPanicked(loc) == Calls[loc].done /\ Calls[loc].callOut.panic # ""
\* The panic values of the resolver methods called so far.
ResolverPanicValues ==
  {Calls[loc].callOut.panic : loc \in {l \in DOMAIN Calls : InvocationPanicked(l)}}

\* C15: a panic of a field's invocation step stays in the field.  It is
\* logged; once the field has ended exactly one error carries the field's
\* path, and that error carries the panic value; the slot of the field is
\* null; the slot of the Limiter the field took is given back; no error of
\* a resolver's panic is without a path, that is, none reached handlePanic
\* of the goroutine or of Execute; and the goroutine goes on where the
\* field was called: while the field is still on the stack the activations
\* below it are, and unless some panic escaped elsewhere the enclosing
\* object is closed by the time Execute returns.
C15_InvocationPanicStaysInField ==
  /\ \A loc \in DOMAIN Calls :
       InvocationPanicked(loc) =>
         /\ Logger >= 1
         /\ loc \in DOMAIN Slots => Slots[loc] = <<"null">>
         /\ IF Executing(loc)
            THEN /\ ErrorsAt(loc) = {}
                 /\ \E x \in FieldFrames :
                      /\ Loc(x[1], x[2]) = loc
                      /\ x[2] = Len(Stack(x[1]))
                      /\ FrameOf(x).pc \in {"release", "result"}
                      /\ FrameOf(x).pc = "result" =>
                           Tracer[loc].acquired = Tracer[loc].released
                      /\ FrameOf(x).err.e.PanicValue = Calls[loc].callOut.panic
            ELSE /\ Tracer[loc].acquired = Tracer[loc].released
                 /\ Cardinality(ErrorsAt(loc)) = 1
                 /\ \A k \in ErrorsAt(loc) :
                      Errs[k] = [panicError(Calls[loc].callOut.panic)
                                   EXCEPT !.Path = loc]
                 /\ Tracer[loc].finished = 1
         /\ (ret.returned /\ EscapedPanics = {}) =>
              /\ Front(loc) \in DOMAIN Objects
              /\ loc \in DOMAIN Slots
  /\ \A k \in EscapedPanics : Errs[k].PanicValue \notin ResolverPanicValues
  /\ \A k \in 1..Len(Errs) :
       Errs[k].PanicValue = NilInterfaceMethod => Errs[k].Path # <<>>

\* C15's case: Execute has returned, not cancelled, after the resolver
\* method of a field that held a slot of the Limiter panicked; the error
\* with the field's path is returned and a sibling executed after the panic
\* has its value in the object.
C15_Witness ==
  /\ ret.returned
  /\ ctxErr = ""
  /\ Limiter = 0
  /\ \E loc \in DOMAIN Calls :
       /\ InvocationPanicked(loc)
       /\ Tracer[loc].acquired = 1
       /\ \E k \in 1..Len(ret.errs) :
            ret.errs[k].Path = loc /\ ret.errs[k].PanicValue = "oops"
       /\ Slots[loc] = <<"null">>
       /\ \E l \in DOMAIN Calls :
            /\ l # loc /\ Front(l) = Front(loc)
            /\ Calls[l].done /\ ~FieldFailed(l)
            /\ Slots[l] # <<"null">>

----------------------------------------------------------------------------
\* Whether a sequence of the tokens the code writes is one complete JSON
\* value.  ParseValue(s, i) is the position after the value that begins at
\* position i of s, or 0 if none does.
Punctuation == {"{", "}", "[", "]", ",", ":", "\""}

RECURSIVE ParseValue(_, _)
RECURSIVE ParseMembers(_, _)
RECURSIVE ParseElements(_, _)

ParseValue(s, i) ==
  IF i = 0 \/ i > Len(s) THEN 0
  ELSE CASE s[i] = "{" ->
              IF i + 1 <= Len(s) /\ s[i + 1] = "}" THEN i + 2
              ELSE ParseMembers(s, i + 1)
         [] s[i] = "[" ->
              IF i + 1 <= Len(s) /\ s[i + 1] = "]" THEN i + 2
              ELSE ParseElements(s, i + 1)
         [] s[i] = "\"" ->
              IF i + 2 <= Len(s) /\ s[i + 1] \notin Punctuation /\ s[i + 2] = "\""
              THEN i + 3 ELSE 0
         [] s[i] \in Punctuation \ {"{", "[", "\""} -> 0
         [] OTHER -> i + 1

\* From the key of a member to after the closing brace.
ParseMembers(s, i) ==
  IF i + 3 > Len(s) THEN 0
  ELSE IF ~(s[i] = "\"" /\ s[i + 1] \notin Punctuation /\ s[i + 2] = "\""
            /\ s[i + 3] = ":")
  THEN 0
  ELSE LET j == ParseValue(s, i + 4)
       IN IF j = 0 \/ j > Len(s) THEN 0
          ELSE IF s[j] = "}" THEN j + 1
          ELSE IF s[j] = "," THEN ParseMembers(s, j + 1)
          ELSE 0

\* From an element to after the closing bracket.
ParseElements(s, i) ==
  LET j == ParseValue(s, i)
  IN IF j = 0 \/ j > Len(s) THEN 0
     ELSE IF s[j] = "]" THEN j + 1
     ELSE IF s[j] = "," THEN ParseElements(s, j + 1)
     ELSE 0

IsJSONValue(s) == Len(s) > 0 /\ ParseValue(s, 1) = Len(s) + 1

Executed == {loc \in DOMAIN Tracer : Tracer[loc].begun >= 1}

\* C16, as the specification states it: when Execute has returned, every
\* field that was executed has a slot and the slot holds exactly one
\* complete JSON value, whatever the outcome of the field.
C16_EverySlotIsOneJSONValue ==
  ret.returned =>
    \A loc \in Executed : loc \in DOMAIN Slots /\ IsJSONValue(Slots[loc])

\* What does hold of the slots: they hold one complete JSON value each
\* when no panic was raised while a result was serialized, and then the
\* bytes returned without cancellation are one JSON value too.
SlotsAreJSONWhenNoPanicEscapes ==
  (ret.returned /\ EscapedPanics = {}) =>
    /\ \A loc \in Executed : loc \in DOMAIN Slots /\ IsJSONValue(Slots[loc])
    /\ ctxErr = "" => IsJSONValue(ret.bytes)

----------------------------------------------------------------------------
\* The fields merged under the alias of loc in the object that holds loc.
Multiplicity(loc) ==
  IF loc = <<>> \/ Front(loc) \notin DOMAIN Objects THEN 0
  ELSE Cardinality({k \in 1..Len(Objects[Front(loc)].keys) :
                      Key(Objects[Front(loc)].keys[k]) = loc[Len(loc)]})

\* The fields at loc whose span is begun and whose execFieldSelection has
\* not returned.
OpenSpans(loc) ==
  {x \in FieldFrames : Loc(x[1], x[2]) = loc
                         /\ FrameOf(x).pc \in {"inflight", "release", "result", "finish"}}

\* The outcome of the field at loc is fixed before its span is finished.
InvocationStepOver(loc) ==
  \/ Tracer[loc].fixed
  \/ Tracer[loc].ctx # ""
  \/ loc \in DOMAIN Calls /\ Calls[loc].done
  \/ \E k \in ErrorsAt(loc) : Errs[k].PanicValue = NilInterfaceMethod

\* C17: a span is begun once per executed field and finished once, after
\* the invocation step of the field: at every moment the spans begun at a
\* location and not finished are those of the fields still executing
\* there past TraceField, so that a field that has ended, however it ended
\* (a panic that unwinds it included), has finished its span exactly once;
\* no location begins more spans than fields were merged under its alias
\* in the object, once the object is written.
C17_SpanBegunAndFinishedOnce ==
  \A loc \in DOMAIN Tracer :
    /\ Front(loc) \in DOMAIN Objects => Tracer[loc].begun <= Multiplicity(loc)
    /\ Tracer[loc].finished + Cardinality(OpenSpans(loc)) = Tracer[loc].begun
    /\ Tracer[loc].finished >= 1 => InvocationStepOver(loc)
    /\ ret.returned => Tracer[loc].finished = Tracer[loc].begun

\* C17's case: Execute has returned after a panic of the serialization of
\* the result of z unwound z, whose span was begun once and is finished
\* once, as is the span of the sibling that succeeded before it.
C17_Witness ==
  /\ ret.returned
  /\ op.Name = 8
  /\ EscapedPanics # {}
  /\ Calls[<<Key("z")>>].done
  /\ Tracer[<<Key("z")>>].begun = 1
  /\ Tracer[<<Key("z")>>].finished = 1
  /\ Tracer[<<Key("e")>>].finished = 1

----------------------------------------------------------------------------
\* The aliases of the field selections of sels, those inside type
\* assertions at any depth included.
RECURSIVE DeepAliases(_)
DeepAliases(sels) ==
  IF Len(sels) = 0 THEN {}
  ELSE (IF Head(sels).kind = "TypeAssertion" THEN DeepAliases(Head(sels).Sels)
        ELSE {Head(sels).Alias})
       \cup DeepAliases(Tail(sels))

\* The type assertions the merge of sels on resolver evaluates, each with
\* the resolver it is evaluated on: those of sels and those inside the
\* ones that hold.
RECURSIVE AssertionsOf(_, _)
AssertionsOf(sels, resolver) ==
  IF Len(sels) = 0 THEN <<>>
  ELSE LET sel == Head(sels)
       IN (IF sel.kind = "TypeAssertion"
           THEN <<[sel |-> sel, on |-> resolver]>>
                \o (IF resolver.is[sel.Method].ok
                    THEN AssertionsOf(sel.Sels, resolver.is[sel.Method].res)
                    ELSE <<>>)
           ELSE <<>>)
          \o AssertionsOf(Tail(sels), resolver)

\* sub is found in s as a run of consecutive entries.
IsRunOf(sub, s) ==
  \E i \in 0..(Len(s) - Len(sub)) : SubSeq(s, i + 1, i + Len(sub)) = sub

MergedFrames == {x \in Frames : FrameOf(x).fn = "execSelections" /\ FrameOf(x).pc # "begin"}

\* The assertion ta, evaluated on the resolver on, in the merge of frame x:
\* if it fails, the aliases selected only in its subtree have no entry
\* among the merged fields, no span, no call and no error below the object;
\* if it holds, every field selection of its subtree is in the one entry of
\* its alias in the merged list, with its nested selections, and the entry
\* is bound to the resolver of the first occurrence of the alias, the
\* narrowed resolver when that occurrence is inside the assertion; the
\* method of the field is called on that resolver.
NarrowedAsClaimed(x, ta, on) ==
  LET fr == FrameOf(x)
      loc == Loc(x[1], x[2])
      occ == Occurrences(fr.sels, fr.resolver)
      kept == {occ[i].Alias : i \in 1..Len(occ)}
      narrowed == on.is[ta.Method]
      inner == Occurrences(ta.Sels, narrowed.res)
  IN IF ~narrowed.ok
     THEN \A a \in DeepAliases(ta.Sels) \ kept :
            /\ \A k \in 1..Len(fr.fields) : fr.fields[k].field.Alias # a
            /\ \A l \in DOMAIN Tracer \cup DOMAIN Calls :
                 ~IsUnder(l, Append(loc, Key(a)))
            /\ \A e \in 1..Len(Errs) : ~IsUnder(Errs[e].Path, Append(loc, Key(a)))
     ELSE \A i \in 1..Len(inner) :
            inner[i].Name # "__typename" =>
              LET at == {k \in 1..Len(fr.fields) :
                           fr.fields[k].field.Alias = inner[i].Alias}
                  first == CHOOSE j \in 1..Len(occ) :
                             /\ occ[j].Alias = inner[i].Alias
                             /\ \A h \in 1..(j - 1) : occ[h].Alias # inner[i].Alias
              IN /\ Cardinality(at) = 1
                 /\ \A k \in at :
                      /\ IsRunOf(inner[i].Sels, fr.fields[k].sels)
                      /\ fr.fields[k].resolver = occ[first].resolver
                      /\ Append(loc, Key(inner[i].Alias)) \in DOMAIN Calls =>
                           Calls[Append(loc, Key(inner[i].Alias))].recv
                             = occ[first].resolver

\* C18: every type assertion evaluated by the merge of a selection set
\* narrows as claimed: a subtree whose assertion fails leaves no field, no
\* invocation and no error, nested assertions included; a subtree whose
\* assertion holds is merged into the list of the enclosing selection set,
\* its first-seen fields bound to the narrowed resolver.
C18_TypeAssertionNarrows ==
  \A x \in MergedFrames :
    LET as == AssertionsOf(FrameOf(x).sels, FrameOf(x).resolver)
    IN \A n \in 1..Len(as) : NarrowedAsClaimed(x, as[n].sel, as[n].on)

\* C18's case: the object of hero is being written after a merge that
\* evaluated an assertion that holds and one that fails with an assertion
\* nested in it; height, first seen inside the one that holds, has been
\* called on the narrowed resolver, which is not the resolver of the
\* object, and name, first seen outside, on the resolver of the object.
C18_Witness ==
  \E x \in MergedFrames :
    LET fr == FrameOf(x)
        loc == Loc(x[1], x[2])
        as == AssertionsOf(fr.sels, fr.resolver)
    IN /\ \E n \in 1..Len(as) : as[n].on.is[as[n].sel.Method].ok
       /\ \E n \in 1..Len(as) :
            /\ ~as[n].on.is[as[n].sel.Method].ok
            /\ {"fn", "h2"} \subseteq DeepAliases(as[n].sel.Sels)
       /\ {Append(loc, Key(a)) : a \in {"height", "n", "name"}} \subseteq DOMAIN Calls
       /\ Calls[Append(loc, Key("height"))].done
       /\ Calls[Append(loc, Key("height"))].recv = Human
       /\ Calls[Append(loc, Key("n"))].recv = Human
       /\ Calls[Append(loc, Key("name"))].recv = Character
       /\ fr.resolver = Character
       /\ [k \in 1..Len(fr.fields) |-> fr.fields[k].field.Alias]
            = <<"name", "t", "height", "n", "id">>

----------------------------------------------------------------------------
\* No entry of the sequence of aliases s repeats an earlier one.
NoRepeat(s) == \A i, j \in 1..Len(s) : s[i] = s[j] => i = j

\* C19, as the specification states it: after the merge of any selection
\* set no two entries of the merged list have the same alias, and no object
\* is written with a key twice.
C19_AliasesAreUnique ==
  /\ \A x \in MergedFrames :
       NoRepeat([k \in 1..Len(FrameOf(x).fields) |-> FrameOf(x).fields[k].field.Alias])
  /\ \A loc \in DOMAIN Objects : NoRepeat(Objects[loc].keys)

\* What the merge does keep unique: the aliases of the entries that are
\* not typename meta-selections.
SchemaFieldAliasesAreUnique ==
  \A x \in MergedFrames :
    \A i, j \in 1..Len(FrameOf(x).fields) :
      (/\ FrameOf(x).fields[i].field.Alias = FrameOf(x).fields[j].field.Alias
       /\ ~FrameOf(x).fields[i].field.FixedResult.valid
       /\ ~FrameOf(x).fields[j].field.FixedResult.valid) => i = j

----------------------------------------------------------------------------
\* C20: Execute terminates; when it has returned the goroutines it started
\* have all ended and been waited for, those that panicked included, and
\* no slot of the Limiter is taken; the slots taken are at every moment
\* those of the fields between their send and their receive, so none is
\* kept by a field that serializes its result or waits for nested work.
C20_ExecuteTerminates ==
  /\ <>(ret.returned)
  /\ [](ret.returned => (DOMAIN g = {Main} /\ Stack(Main) = <<>> /\ Limiter = 0))
  /\ [](Limiter = Cardinality(Holding))
  /\ [](Limiter <= limiterCap)

\* On every operation of the model: until Execute has returned some
\* goroutine can take a step, and every step leaves fewer steps to take.
SomeTaskCanRun == ~ret.returned => ENABLED Progress

\* C20's case: Execute has returned, with a single slot in the Limiter,
\* from a selection set whose fields ran in goroutines of their own and took
\* the slot in turn, after a goroutine of a list element panicked.
C20_Witness ==
  /\ ret.returned
  /\ limiterCap = 1
  /\ op.Name = 4
  /\ op.Type = "query"
  /\ EscapedPanics # {}
  /\ DOMAIN g = {Main}
  /\ Limiter = 0
  /\ \E l1, l2 \in DOMAIN Tracer :
       l1 # l2 /\ Tracer[l1].released = 1 /\ Tracer[l2].released = 1

====
